---- MODULE Spec2Model ----
(***************************************************************************)
(* docu-flow: client-side behaviour of the documentation page.            *)
(*   assets/js/navigation.js   drawer, link clicks, observer, popstate     *)
(*   assets/js/scroll-spy.js   ScrollSpy (animated scroll, active link)    *)
(*   assets/js/theme-toggle.js theme preference                            *)
(* The browser is single threaded: every event listener, timer callback   *)
(* and animation frame runs to completion, so each is one action.  The    *)
(* page state is gathered in a record (Cur) and every handler is an       *)
(* operator from page state to page state; an event dispatches the        *)
(* listeners of both scripts in the order the scripts were loaded.        *)
(***************************************************************************)
EXTENDS Integers, Sequences, FiniteSets, TLC

\* ---------------------------------------------------------------- bounds
MaxHistory == 2      \* session-history entries kept by the model
MaxAnims == 2      \* smoothScrollTo animations started in one run

\* ------------------------------------------------------ program constants
Breakpoint          == 768    \* window.innerWidth <= 768 / > 768
ResizeDelay         == 250    \* setTimeout(..., 250) of the resize handlers
InitialLoadDelay    == 100    \* setTimeout(..., 100) of the initial load
scrollDuration      == 600    \* initScrollSpy: scrollDuration: 600
offset              == 50     \* initScrollSpy: offset: 50
ExtraPadding        == 20     \* "- 20; // Extra padding"
DefaultHeaderHeight == 64     \* this.headerHeight = 64; // Default fallback
NavObserverOffset   == 50     \* rootMargin: -${headerHeight + 50}px
NavFallbackOffset   == 100    \* window.pageYOffset + headerHeight + 100
BottomMarginPercent == 66     \* rootMargin "... 0px -66% 0px"
performanceMode     == TRUE   \* initScrollSpy: performanceMode: true

Null == 0            \* null link reference (currentActive = null)
None == -1           \* no timer pending / no native scroll in progress

Min(a, b) == IF a < b THEN a ELSE b
Max(a, b) == IF a > b THEN a ELSE b

RECURSIVE GCD(_, _)
GCD(a, b) == IF b = 0 THEN a ELSE GCD(b, a % b)

\* Time is observed on a grid of TimeUnit milliseconds.
TimeUnit == scrollDuration \div 2
EaseUnit == GCD(TimeUnit, scrollDuration)

\* ------------------------------------------------------------- the page
\* The document the scripts run on (index.html): three navigation links in
\* document order, three sections in document order.  Link 3 points at an
\* identifier no element carries; section "bare" has no link.
LinkHref   == <<"s1", "s2", "gone">>
Links      == 1 .. Len(LinkHref)
SectionIds == <<"s1", "bare", "s2">>
Sections   == {SectionIds[i] : i \in 1 .. Len(SectionIds)}
LoadFragments == {"", "s2", "gone", "bare", "nowhere"}

Page == [headerHeight |-> 60, viewportHeight |-> 600, docHeight |-> 1500]
SectionTop    == [s1 |-> 200, bare |-> 700, s2 |-> 1000, s0 |-> 0]
SectionHeight == [s1 |-> 500, bare |-> 300, s2 |-> 400, s0 |-> 200]
MaxScrollY == Page.docHeight - Page.viewportHeight
Widths == {Breakpoint, Breakpoint + 1}
UserScrollPositions == {0, 700, 900}

\* Content added to the document after the scripts ran: one more section,
\* first in document order, and a link to it at the end of the navigation.
AddedId   == "s0"
AddedLink == Len(LinkHref) + 1

\* heights the site header may take when its content reflows
HeaderHeights == {Page.headerHeight, Page.headerHeight + 20}

\* the optional elements of the page, all present
AllElements == [header |-> TRUE, sidebar |-> TRUE, menuToggle |-> TRUE,
                layoutGrid |-> TRUE]
ElementSets == [header : BOOLEAN, sidebar : BOOLEAN, menuToggle : BOOLEAN,
                layoutGrid : BOOLEAN]

\* The rel attribute of a link: present or not, and its tokens in order.
RelTokens  == {"noopener", "noreferrer", "nofollow"}
RelStrings == {<<>>} \cup {<<a>> : a \in RelTokens}
                     \cup {<<a, b>> : a, b \in RelTokens}
RelValues  == {[has |-> FALSE, tokens |-> <<>>]}
                  \cup {[has |-> TRUE, tokens |-> r] : r \in RelStrings}
\* the target="_blank" links of the document, and their rel as served
ExternalLinks == 1 .. 2
DefaultRel == [k \in ExternalLinks |->
                  [has |-> TRUE, tokens |-> <<"noopener", "noreferrer">>]]

\* rel.includes(token), on strings made of the tokens above
Includes(r, token) == \E i \in 1 .. Len(r) : r[i] = token

\* window.scrollTo clamps to the scrollable range
Clamp(y) == Max(0, Min(y, MaxScrollY))

\* document.getElementById(id) / document.querySelector('#' + id)
ElementExists(id) == id \in Sections

\* document.querySelector('.nav-link[href="#id"]'): first match or null
LinkFor(id) ==
    IF \E l \in Links : LinkHref[l] = id
    THEN CHOOSE l \in Links : /\ LinkHref[l] = id
                              /\ \A k \in Links : LinkHref[k] = id => l <= k
    ELSE Null

\* the same lookups on the document as it is now
Href(l) == IF l = AddedLink THEN AddedId ELSE LinkHref[l]
DocLinks(s) == IF s.docAdded THEN 1 .. AddedLink ELSE Links
DocNavLinks(s) == [l \in DocLinks(s) |-> l]
DocSectionIds(s) == IF s.docAdded THEN <<AddedId>> \o SectionIds ELSE SectionIds
HasElement(s, id) == ElementExists(id) \/ (s.docAdded /\ id = AddedId)
QueryLink(s, id) ==
    IF LinkFor(id) # Null THEN LinkFor(id)
    ELSE IF s.docAdded /\ id = AddedId THEN AddedLink ELSE Null

\* section.getBoundingClientRect().top + window.pageYOffset - header - 20
TargetPosition(id, header) == SectionTop[id] - header - ExtraPadding

\* easeInOutCubic times distance, positions kept in whole pixels
EasedDistance(distance, elapsed, duration) ==
    LET k == Min(elapsed, duration) \div EaseUnit
        n == duration \div EaseUnit
    IN  IF 2 * k < n
        THEN (distance * 4 * k * k * k) \div (n * n * n)
        ELSE distance - (distance * (2 * n - 2 * k) * (2 * n - 2 * k)
                                  * (2 * n - 2 * k)) \div (2 * n * n * n)

\* IntersectionObserver: does the section cross the band left by the margins
Intersecting(id, y, topMargin) ==
    LET bandTop    == y + topMargin
        bandBottom == y + Page.viewportHeight
                        - (Page.viewportHeight * BottomMarginPercent) \div 100
    IN  /\ bandTop <= bandBottom
        /\ SectionTop[id] <= bandBottom
        /\ SectionTop[id] + SectionHeight[id] >= bandTop

\* ---------------------------------------------------------------- state
VARIABLES
    scripts,          \* the scripts of the page, in load order
    hasIO,            \* 'IntersectionObserver' in window
    loadHash,         \* window.location.hash when the scripts ran
    entries, cursor,  \* session history (URL fragments) and current entry
    active,           \* links carrying the 'active' class
    sidebarOpen,      \* #sidebar has class 'open'
    overlayActive,    \* .sidebar-overlay has class 'active'
    ariaExpanded,     \* aria-expanded of #menu-toggle
    bodyOverflow,     \* document.body.style.overflow
    innerWidth,       \* window.innerWidth
    scrollY,          \* window.pageYOffset
    nativeTarget,     \* target of a browser smooth scroll in progress
    scrollEvent,      \* a scroll event waits for the next frame
    raf,              \* requestAnimationFrame callbacks, in request order
    frameQueue,       \* callbacks of the frame in progress still to run
    sinceResize,      \* time since the last resize event (up to ResizeDelay)
    animCount,        \* animations started so far
    navInstalled,     \* listeners navigation.js managed to install
    navInitTimer, navResizeTimers, navTicking,
    spyMode,          \* "observer", "polling" or "off"
    currentActive, isScrolling,
    spyInitTimer, spyResizeTimers, spyTicking,
    last,             \* how the last step ended
    focus,            \* document.activeElement: "toggle" or "other"
    elements,         \* which optional elements the page has
    docAdded,         \* the added section and link are in the document
    docHeaderHeight,  \* offsetHeight of .site-header now
    spyHeaderHeight,  \* ScrollSpy: this.headerHeight
    spyNavLinks,      \* ScrollSpy: this.navLinks
    spySections,      \* ScrollSpy: this.sections
    spyObserved,      \* sections ScrollSpy's IntersectionObserver observes
    relMarkup,        \* rel of each target="_blank" link as the document has it
    rel,              \* rel of each target="_blank" link now
    onActivated,      \* sections passed to config.onActivate by the last step
    destroyed,        \* ScrollSpy: destroy() has been called
    theme,            \* theme-toggle.js: storage, document attribute, button
    toggleRun,        \* theme before each toggle of the current run of toggles
    userChose         \* the user has used the theme toggle

vars == <<scripts, hasIO, loadHash, entries, cursor, active, sidebarOpen, overlayActive,
          ariaExpanded, bodyOverflow, innerWidth, scrollY, nativeTarget,
          scrollEvent, raf, frameQueue, sinceResize, animCount, navInstalled,
          navInitTimer, navResizeTimers, navTicking, spyMode, currentActive, isScrolling,
          spyInitTimer, spyResizeTimers, spyTicking, last,
          focus, elements, docAdded, docHeaderHeight, spyHeaderHeight,
          spyNavLinks, spySections, spyObserved, relMarkup, rel, onActivated,
          destroyed, theme, toggleRun, userChose>>

pageVars == <<scripts, hasIO, loadHash, entries, cursor, active, sidebarOpen,
              overlayActive, ariaExpanded, bodyOverflow, innerWidth, scrollY,
              nativeTarget, scrollEvent, raf, frameQueue, sinceResize,
              animCount, navInstalled, navInitTimer, navResizeTimers,
              navTicking, spyMode, currentActive, isScrolling, spyInitTimer,
              spyResizeTimers, spyTicking, last, focus, elements, docAdded,
              docHeaderHeight, spyHeaderHeight, spyNavLinks, spySections,
              spyObserved, relMarkup, rel, onActivated, destroyed>>

Cur == [scripts |-> scripts, hasIO |-> hasIO, loadHash |-> loadHash,
        entries |-> entries,
        cursor |-> cursor, active |-> active, sidebarOpen |-> sidebarOpen,
        overlayActive |-> overlayActive, ariaExpanded |-> ariaExpanded,
        bodyOverflow |-> bodyOverflow, innerWidth |-> innerWidth,
        scrollY |-> scrollY, nativeTarget |-> nativeTarget,
        scrollEvent |-> scrollEvent, raf |-> raf, frameQueue |-> frameQueue,
        sinceResize |-> sinceResize, animCount |-> animCount,
        navInstalled |-> navInstalled, navInitTimer |-> navInitTimer,
        navResizeTimers |-> navResizeTimers, navTicking |-> navTicking,
        spyMode |-> spyMode, currentActive |-> currentActive,
        isScrolling |-> isScrolling, spyInitTimer |-> spyInitTimer,
        spyResizeTimers |-> spyResizeTimers, spyTicking |-> spyTicking,
        last |-> last, focus |-> focus, elements |-> elements,
        docAdded |-> docAdded, docHeaderHeight |-> docHeaderHeight,
        spyHeaderHeight |-> spyHeaderHeight, spyNavLinks |-> spyNavLinks,
        spySections |-> spySections, spyObserved |-> spyObserved,
        relMarkup |-> relMarkup, rel |-> rel, onActivated |-> onActivated,
        destroyed |-> destroyed]

\* the page becomes s; s is computed once, then every field is assigned
Become(s) ==
    \E t \in {s} :
      /\ scripts' = t.scripts /\ hasIO' = t.hasIO /\ loadHash' = t.loadHash
      /\ entries' = t.entries /\ cursor' = t.cursor
      /\ active' = t.active /\ sidebarOpen' = t.sidebarOpen
      /\ overlayActive' = t.overlayActive /\ ariaExpanded' = t.ariaExpanded
      /\ bodyOverflow' = t.bodyOverflow /\ innerWidth' = t.innerWidth
      /\ scrollY' = t.scrollY /\ nativeTarget' = t.nativeTarget
      /\ scrollEvent' = t.scrollEvent /\ raf' = t.raf
      /\ frameQueue' = t.frameQueue /\ sinceResize' = t.sinceResize
      /\ animCount' = t.animCount /\ navInstalled' = t.navInstalled
      /\ navInitTimer' = t.navInitTimer
      /\ navResizeTimers' = t.navResizeTimers /\ navTicking' = t.navTicking
      /\ spyMode' = t.spyMode /\ currentActive' = t.currentActive
      /\ isScrolling' = t.isScrolling /\ spyInitTimer' = t.spyInitTimer
      /\ spyResizeTimers' = t.spyResizeTimers /\ spyTicking' = t.spyTicking
      /\ last' = t.last /\ focus' = t.focus /\ elements' = t.elements
      /\ docAdded' = t.docAdded /\ docHeaderHeight' = t.docHeaderHeight
      /\ spyHeaderHeight' = t.spyHeaderHeight
      /\ spyNavLinks' = t.spyNavLinks /\ spySections' = t.spySections
      /\ spyObserved' = t.spyObserved
      /\ relMarkup' = t.relMarkup /\ rel' = t.rel
      /\ onActivated' = t.onActivated /\ destroyed' = t.destroyed
      /\ UNCHANGED <<theme, toggleRun, userChose>>

\* 'last' tells how the last step ended: "load" after the scripts ran
\* ("loadThrew" when one of them ended with an uncaught exception), then
\* "ok", or "threw" when a listener ended with an uncaught exception
Event(s) == [s EXCEPT !.last = "ok", !.onActivated = <<>>]
Threw(s) ==
    [s EXCEPT !.last = IF s.last \in {"load", "loadThrew"} THEN "loadThrew"
                       ELSE "threw"]

Hash(s) == s.entries[s.cursor]          \* window.location.hash without '#'
Narrow(s) == s.innerWidth <= Breakpoint

\* ------------------------------------------------------ browser services
\* history.pushState(null, null, '#' + id); the browser keeps MaxHistory
\* entries and evicts the oldest
pushState(s, id) ==
    LET new == Append(SubSeq(s.entries, 1, s.cursor), id)
    IN  IF Len(new) > MaxHistory
        THEN [s EXCEPT !.entries = Tail(new), !.cursor = MaxHistory]
        ELSE [s EXCEPT !.entries = new, !.cursor = Len(new)]

\* history.replaceState(null, null, '#' + id)
replaceState(s, id) == [s EXCEPT !.entries[s.cursor] = id]

\* window.scrollTo(0, y): instant, ends a smooth scroll in progress
scrollTo(s, y) ==
    [s EXCEPT !.scrollY = Clamp(y), !.nativeTarget = None,
              !.scrollEvent = s.scrollEvent \/ Clamp(y) # s.scrollY]

\* window.scrollTo({top: y, behavior: 'smooth'}): the browser animates
scrollToSmooth(s, y) == [s EXCEPT !.nativeTarget = Clamp(y)]

\* faulty variant: the callback requested last runs first
requestAnimationFrameFirst(s, cb) == [s EXCEPT !.raf = <<cb>> \o s.raf]

\* requestAnimationFrame(cb)
requestAnimationFrame(s, cb) == [s EXCEPT !.raf = Append(s.raf, cb)]

\* --------------------------------------------------------- navigation.js
openSidebar(s) ==
    [s EXCEPT !.sidebarOpen = TRUE, !.overlayActive = TRUE,
              !.ariaExpanded = "true", !.bodyOverflow = "hidden"]

closeSidebar(s) ==
    [s EXCEPT !.sidebarOpen = FALSE, !.overlayActive = FALSE,
              !.ariaExpanded = "false", !.bodyOverflow = ""]

\* closeSidebar() called from the link click handler: the function is
\* declared inside the if-block of a strict-mode script, so the name is not
\* bound at the call site and the call raises a ReferenceError
closeSidebarFromClick(s) == Threw(s)

navToggleClick(s) ==
    IF ~s.navInstalled.toggle THEN s
    ELSE IF s.sidebarOpen THEN closeSidebar(s) ELSE openSidebar(s)

navOverlayClick(s) ==
    IF ~s.navInstalled.drawer THEN s ELSE closeSidebar(s)

\* faulty variant of the keydown listener: the focus is not returned
navKeydownKeepsFocus(s, key) ==
    IF ~s.navInstalled.drawer THEN s
    ELSE IF key = "Escape" /\ s.sidebarOpen THEN closeSidebar(s) ELSE s

navKeydown(s, key) ==
    IF ~s.navInstalled.drawer THEN s
    ELSE IF key = "Escape" /\ s.sidebarOpen
         THEN [closeSidebar(s) EXCEPT !.focus = "toggle"]   \* menuToggle.focus()
         ELSE s

\* faulty variant of the resize listener: the pending timer is not cleared
navResizeKeepsTimers(s) ==
    IF ~s.navInstalled.drawer THEN s
    ELSE [s EXCEPT !.navResizeTimers = Append(s.navResizeTimers, ResizeDelay)]

\* resize listener: clearTimeout(resizeTimer); resizeTimer = setTimeout(.., 250)
navResize(s) ==
    IF ~s.navInstalled.drawer THEN s
    ELSE [s EXCEPT !.navResizeTimers = <<ResizeDelay>>]

\* the debounced callback
navResizeCallback(s) ==
    IF s.innerWidth > Breakpoint /\ s.sidebarOpen THEN closeSidebar(s) ELSE s

\* updateActiveLink: navLinks is the list queried when the script ran
navUpdateActiveLink(s, l) == [s EXCEPT !.active = (s.active \ Links) \cup {l}]

\* click listener of a link of that list.  Reading offsetHeight of a missing
\* header, or classList of a missing sidebar, raises a TypeError.
navClick(s, l) ==
    LET targetId == Href(l) IN
    IF ~s.navInstalled.click \/ l \notin Links \/ ~HasElement(s, targetId) THEN s
    ELSE IF ~s.elements.header THEN Threw(s)
    ELSE LET t1 == scrollToSmooth(s, TargetPosition(targetId, s.docHeaderHeight))
             t2 == navUpdateActiveLink(t1, l)
         IN  IF t2.innerWidth <= Breakpoint /\ ~t2.elements.sidebar
             THEN Threw(t2)
             ELSE IF t2.innerWidth <= Breakpoint /\ t2.sidebarOpen
             THEN closeSidebarFromClick(t2)
             ELSE pushState(t2, targetId)

\* IntersectionObserver callback of navigation.js, one intersecting entry
navObserverCallback(s, id) ==
    IF QueryLink(s, id) # Null THEN navUpdateActiveLink(s, QueryLink(s, id)) ELSE s

\* setInitialActiveLink()
setInitialActiveLink(s) ==
    IF Hash(s) # ""
    THEN IF LinkFor(Hash(s)) # Null
         THEN [navUpdateActiveLink(s, LinkFor(Hash(s)))
                  EXCEPT !.navInitTimer = InitialLoadDelay]
         ELSE s
    ELSE IF Len(LinkHref) > 0 THEN [s EXCEPT !.active = s.active \cup {1}] ELSE s

\* the 100 ms callback of setInitialActiveLink
navInitCallback(s) ==
    IF HasElement(s, s.loadHash)
    THEN scrollToSmooth(s, TargetPosition(s.loadHash, Page.headerHeight))
    ELSE s

\* fallback updateActiveOnScroll of navigation.js
RECURSIVE navScanSections(_, _)
navScanSections(s, i) ==
    IF i > Len(SectionIds) THEN s
    ELSE LET id  == SectionIds[i]
             pos == s.scrollY + Page.headerHeight + NavFallbackOffset
             hit == pos >= SectionTop[id] /\ pos < SectionTop[id] + SectionHeight[id]
             c   == QueryLink(s, id)
         IN  navScanSections(
                 IF hit /\ c # Null /\ c \notin s.active
                 THEN navUpdateActiveLink(s, c) ELSE s, i + 1)

navUpdateActiveOnScroll(s) == navScanSections(s, 1)

\* fallback scroll listener (one check per animation frame)
navScroll(s) ==
    IF ~s.navInstalled.fallback \/ s.navTicking THEN s
    ELSE [requestAnimationFrame(s, [k |-> "navPoll"]) EXCEPT !.navTicking = TRUE]

navPopstate(s) ==
    IF ~s.navInstalled.popstate \/ Hash(s) = "" THEN s
    ELSE LET t1 == IF HasElement(s, Hash(s))
                   THEN scrollToSmooth(s, TargetPosition(Hash(s), Page.headerHeight))
                   ELSE s
         IN  IF QueryLink(s, Hash(s)) # Null
             THEN navUpdateActiveLink(t1, QueryLink(s, Hash(s))) ELSE t1

\* 'Ensure security attributes' for one link: both tests read the rel
\* string fetched before the first setAttribute
ensureSecurityAttributes(r) ==
    IF ~r.has THEN [has |-> TRUE, tokens |-> <<"noopener", "noreferrer">>]
    ELSE LET relString == r.tokens
             r1 == IF ~Includes(relString, "noopener")
                   THEN [r EXCEPT !.tokens = Append(relString, "noopener")]
                   ELSE r
         IN  IF ~Includes(relString, "noreferrer")
             THEN [r1 EXCEPT !.tokens = Append(relString, "noreferrer")]
             ELSE r1

\* externalLinks.forEach(...)
externalLinks(s) ==
    [s EXCEPT !.rel = [k \in DOMAIN s.rel |-> ensureSecurityAttributes(s.rel[k])]]

\* execution of navigation.js at page load.  An uncaught exception ends the
\* script; the listeners registered before that line stay registered.
\*   line 29:  document.querySelector('.layout-grid').appendChild(overlay)
\*   line 108: document.querySelector('.site-header').offsetHeight
\*   line 117: new IntersectionObserver(...)
\* The external links are the last thing the script attends to.
navLoad(s) ==
    LET drawer == s.elements.menuToggle /\ s.elements.sidebar
        t1 == [s EXCEPT !.navInstalled.toggle = drawer]
        t2 == [t1 EXCEPT !.navInstalled.drawer = drawer, !.navInstalled.click = TRUE]
    IN  IF drawer /\ ~s.elements.layoutGrid THEN Threw(t1)
        ELSE IF ~s.elements.header THEN Threw(t2)
        ELSE IF ~s.hasIO THEN Threw(t2)
        ELSE externalLinks(
                 [setInitialActiveLink([t2 EXCEPT !.navInstalled.observer = TRUE])
                     EXCEPT !.navInstalled.popstate = TRUE])

\* ---------------------------------------------------------- scroll-spy.js
\* the links of this.navLinks
Tracked(s) == {s.spyNavLinks[i] : i \in 1 .. Len(s.spyNavLinks)}

updateActiveLink(s, activeLink) ==
    IF activeLink # Null
    THEN [s EXCEPT !.active = (s.active \ Tracked(s)) \cup {activeLink},
                   !.currentActive = activeLink,
                   !.onActivated = Append(@, Href(activeLink))]
    ELSE [s EXCEPT !.active = s.active \ Tracked(s)]

\* faulty variant of closeMobileMenu: the overlay keeps its 'active' class
closeMobileMenuLeavesOverlay(s) ==
    IF s.innerWidth <= Breakpoint /\ s.sidebarOpen
    THEN [s EXCEPT !.sidebarOpen = FALSE,
                   !.ariaExpanded = "false", !.bodyOverflow = ""]
    ELSE s

\* the overlay is found in the document only if navigation.js appended it
closeMobileMenu(s) ==
    IF s.innerWidth <= Breakpoint /\ s.elements.sidebar /\ s.sidebarOpen
    THEN [s EXCEPT !.sidebarOpen = FALSE,
                   !.overlayActive = IF s.navInstalled.drawer THEN FALSE ELSE @,
                   !.ariaExpanded = IF s.elements.menuToggle THEN "false" ELSE @,
                   !.bodyOverflow = ""]
    ELSE s

\* faulty variant of smoothScrollTo: the animations in flight are dropped
smoothScrollToCancelsEarlier(s, targetPosition, duration) ==
    [s EXCEPT !.raf = SelectSeq(s.raf, LAMBDA cb : cb.k # "anim")
                        \o <<[k |-> "anim", id |-> s.animCount + 1,
                              from |-> s.scrollY,
                              distance |-> targetPosition - s.scrollY,
                              elapsed |-> 0, duration |-> duration]>>,
              !.animCount = s.animCount + 1]

\* performance.now() is read at the call; the loop is one animation-frame
\* callback that requests itself again
smoothScrollTo(s, targetPosition, duration) ==
    [requestAnimationFrame(s, [k |-> "anim", id |-> s.animCount + 1,
                               from |-> s.scrollY,
                               distance |-> targetPosition - s.scrollY,
                               elapsed |-> 0, duration |-> duration])
        EXCEPT !.animCount = s.animCount + 1]

scrollToSection(s, id, link) ==
    LET t1 == [s EXCEPT !.isScrolling = TRUE]
        t2 == smoothScrollTo(t1, TargetPosition(id, s.spyHeaderHeight), scrollDuration)
        t3 == updateActiveLink(t2, link)
        t4 == pushState(t3, id)
    IN  closeMobileMenu(t4)

\* faulty variant of the animation loop: it requests itself on every frame
animationNeverEnds(s, a) ==
    requestAnimationFrame(
        scrollTo(s, a.from + EasedDistance(a.distance, a.elapsed, a.duration)), a)

\* one frame of the animation started by smoothScrollTo
animation(s, a) ==
    LET t1 == scrollTo(s, a.from + EasedDistance(a.distance, a.elapsed, a.duration))
    IN  IF a.elapsed < a.duration
        THEN requestAnimationFrame(t1, a)
        ELSE [t1 EXCEPT !.isScrolling = FALSE]

\* faulty variant of setActiveLink: the isScrolling guard is missing
setActiveLinkUnguarded(s, sectionId) ==
    LET correspondingLink == QueryLink(s, sectionId)
    IN  IF correspondingLink # Null /\ s.currentActive # correspondingLink
        THEN replaceState(updateActiveLink(s, correspondingLink), sectionId)
        ELSE s

\* faulty variant of setActiveLink: the link is applied again when it is
\* the current one already
setActiveLinkRepeats(s, sectionId) ==
    IF s.isScrolling THEN s
    ELSE LET correspondingLink == QueryLink(s, sectionId)
         IN  IF correspondingLink # Null
             THEN replaceState(updateActiveLink(s, correspondingLink), sectionId)
             ELSE s

setActiveLink(s, sectionId) ==
    IF s.isScrolling THEN s
    ELSE LET correspondingLink == QueryLink(s, sectionId)
         IN  IF correspondingLink # Null /\ s.currentActive # correspondingLink
             THEN replaceState(updateActiveLink(s, correspondingLink), sectionId)
             ELSE s

\* click listener added by setupNavigation to the links found at init
spyClick(s, l) ==
    IF s.spyMode = "off" \/ l \notin Links \/ ~HasElement(s, Href(l)) THEN s
    ELSE scrollToSection(s, Href(l), l)

spyObserverCallback(s, id) == setActiveLink(s, id)

\* faulty variant of the polling check: the configured offset is left out
updateActiveOnScrollWithoutOffset(s) ==
    LET scrollPos == s.scrollY + s.spyHeaderHeight
        ids  == s.spySections
        hits == {i \in 1 .. Len(ids) :
                    /\ scrollPos >= SectionTop[ids[i]]
                    /\ scrollPos < SectionTop[ids[i]] + SectionHeight[ids[i]]}
    IN  IF hits = {} THEN s
        ELSE setActiveLink(s, ids[CHOOSE i \in hits : \A j \in hits : j <= i])

\* the section (last in document order) containing the probe position
updateActiveOnScroll(s) ==
    LET scrollPos == s.scrollY + s.spyHeaderHeight + offset
        ids  == s.spySections
        hits == {i \in 1 .. Len(ids) :
                    /\ scrollPos >= SectionTop[ids[i]]
                    /\ scrollPos < SectionTop[ids[i]] + SectionHeight[ids[i]]}
    IN  IF hits = {} THEN s
        ELSE setActiveLink(s, ids[CHOOSE i \in hits : \A j \in hits : j <= i])

\* faulty variant of the scroll listener: every event requests a check
spyScrollUnthrottled(s) ==
    IF s.spyMode # "polling" THEN s
    ELSE [requestAnimationFrame(s, [k |-> "spyPoll"]) EXCEPT !.spyTicking = TRUE]

\* setupScrollListener: scroll listener throttled by 'ticking'
spyScroll(s) ==
    IF s.spyMode # "polling" \/ s.spyTicking THEN s
    ELSE [requestAnimationFrame(s, [k |-> "spyPoll"]) EXCEPT !.spyTicking = TRUE]

\* faulty variant of handleInitialLoad: the first link is the default also
\* when the fragment matches nothing
handleInitialLoadAlwaysDefaults(s) ==
    IF Hash(s) # "" /\ LinkFor(Hash(s)) # Null /\ ElementExists(Hash(s))
    THEN [s EXCEPT !.spyInitTimer = InitialLoadDelay]
    ELSE IF Len(LinkHref) > 0
         THEN [s EXCEPT !.active = s.active \cup {1}, !.currentActive = 1]
         ELSE s

handleInitialLoad(s) ==
    IF Hash(s) # ""
    THEN IF LinkFor(Hash(s)) # Null /\ ElementExists(Hash(s))
         THEN [s EXCEPT !.spyInitTimer = InitialLoadDelay]
         ELSE s
    ELSE IF Len(LinkHref) > 0
         THEN [s EXCEPT !.active = s.active \cup {1}, !.currentActive = 1]
         ELSE s

\* faulty variant of the 100 ms callback: the first link is passed instead of
\* the link of the fragment
spyInitCallbackFirstLink(s) == scrollToSection(s, s.loadHash, 1)

\* the 100 ms callback of handleInitialLoad
spyInitCallback(s) == scrollToSection(s, s.loadHash, LinkFor(s.loadHash))

spyPopstate(s) ==
    IF s.spyMode = "off" \/ Hash(s) = "" THEN s
    ELSE IF HasElement(s, Hash(s)) /\ QueryLink(s, Hash(s)) # Null
         THEN scrollToSection(s, Hash(s), QueryLink(s, Hash(s)))
         ELSE s

\* initScrollSpy resize listener: clearTimeout; setTimeout(refresh, 250)
spyResize(s) ==
    IF "spy" \notin {s.scripts[i] : i \in 1 .. Len(s.scripts)} THEN s
    ELSE [s EXCEPT !.spyResizeTimers = <<ResizeDelay>>]

\* faulty variant of refresh: the link list is not queried again
refreshKeepsLinks(s) ==
    [s EXCEPT !.spySections = DocSectionIds(s),
              !.spyHeaderHeight = IF s.elements.header THEN s.docHeaderHeight ELSE @]

\* ScrollSpy.prototype.refresh
refresh(s) ==
    [s EXCEPT !.spySections = DocSectionIds(s),
              !.spyNavLinks = DocNavLinks(s),
              !.spyHeaderHeight = IF s.elements.header THEN s.docHeaderHeight ELSE @]

\* ScrollSpy.prototype.destroy: the observer, if any, is disconnected; no
\* listener is removed
destroy(s) == [s EXCEPT !.spyObserved = {}, !.destroyed = TRUE]

\* setupIntersectionObserver: every section of this.sections is observed
setupIntersectionObserver(s) ==
    [s EXCEPT !.spyMode = "observer",
              !.spyObserved = {s.spySections[i] : i \in 1 .. Len(s.spySections)}]

\* setupScrollListener: the throttled scroll listener (spyScroll) is added
setupScrollListener(s) == [s EXCEPT !.spyMode = "polling"]

\* faulty variant of the choice made by init: the capability is not tested
chooseStrategyIgnoresCapability(s) == setupScrollListener(s)

\* init(), lines 95-99
chooseStrategy(s) ==
    IF s.hasIO /\ performanceMode THEN setupIntersectionObserver(s)
    ELSE setupScrollListener(s)

\* new ScrollSpy(...): the constructor queries the links, the sections and
\* the header; init() chooses the detection strategy
spyLoad(s) ==
    LET t1 == [s EXCEPT !.spyNavLinks = DocNavLinks(s),
                        !.spySections = DocSectionIds(s),
                        !.spyHeaderHeight = IF s.elements.header
                                            THEN s.docHeaderHeight
                                            ELSE DefaultHeaderHeight]
    IN  IF Len(t1.spyNavLinks) = 0 \/ Len(t1.spySections) = 0 THEN t1
        ELSE handleInitialLoad(chooseStrategy(t1))

\* -------------------------------------------------------- theme-toggle.js
Absent == "absent"   \* localStorage.getItem('theme') returns null

\* what localStorage may hold under 'theme' when the page loads
StoredThemes == {Absent, "light", "dark", "auto"}

\* faulty variant of getTheme: the system preference is not consulted
getThemeIgnoresSystem(th) ==
    IF th.stored # Absent THEN th.stored ELSE "light"

getTheme(th) ==
    IF th.stored # Absent THEN th.stored
    ELSE IF th.matchMedia /\ th.prefersDark THEN "dark"
    ELSE "light"

\* faulty variant of applyTheme: the theme is not written to storage
applyThemeWithoutSaving(th, newTheme) ==
    LET t1 == [th EXCEPT !.dataTheme = newTheme]
    IN  IF ~t1.button THEN t1
        ELSE IF newTheme = "dark"
             THEN [t1 EXCEPT !.text = "Light", !.label = "Switch to light mode"]
             ELSE [t1 EXCEPT !.text = "Dark", !.label = "Switch to dark mode"]

applyTheme(th, newTheme) ==
    LET t1 == [th EXCEPT !.dataTheme = newTheme, !.stored = newTheme]
    IN  IF ~t1.button THEN t1
        ELSE IF newTheme = "dark"
             THEN [t1 EXCEPT !.text = "Light", !.label = "Switch to light mode"]
             ELSE [t1 EXCEPT !.text = "Dark", !.label = "Switch to dark mode"]

toggleTheme(th) ==
    applyTheme(th, IF th.dataTheme = "dark" THEN "light" ELSE "dark")

initTheme(th) == applyTheme(th, getTheme(th))

createThemeToggle(th) ==
    IF ~th.topNav THEN th
    ELSE [th EXCEPT !.button = TRUE, !.text = "Dark", !.label = "Toggle theme"]

\* the 'change' listener registered by watchSystemTheme
systemThemeChanged(th, matches) ==
    LET t1 == [th EXCEPT !.prefersDark = matches]
    IN  IF ~th.matchMedia \/ ~th.booted THEN t1
        ELSE IF t1.stored = Absent
             THEN applyTheme(t1, IF matches THEN "dark" ELSE "light")
             ELSE t1

\* initTheme(); createThemeToggle(); watchSystemTheme();
ThemeBoot(th) == [createThemeToggle(initTheme(th)) EXCEPT !.booted = TRUE]

\* the script has been evaluated: it has initialised the theme, or, with
\* document.readyState 'loading', left that to DOMContentLoaded
ThemeLoad(stored, prefersDark, matchMedia, topNav, loading) ==
    LET th == [stored |-> stored, dataTheme |-> Absent,
               prefersDark |-> prefersDark, matchMedia |-> matchMedia,
               topNav |-> topNav, button |-> FALSE, text |-> "", label |-> "",
               booted |-> FALSE]
    IN  IF loading THEN th ELSE ThemeBoot(th)

DefaultTheme == ThemeLoad(Absent, FALSE, TRUE, TRUE, FALSE)

\* ------------------------------------------------------------- page load
ScriptOrders == {<<"nav">>, <<"spy">>, <<"nav", "spy">>, <<"spy", "nav">>}

Loaded(s, name) == \E i \in 1 .. Len(s.scripts) : s.scripts[i] = name

\* every listener of an event runs, in the order the scripts registered them
Dispatch(s, navListener(_), spyListener(_)) ==
    IF s.scripts = <<"nav">> THEN navListener(s)
    ELSE IF s.scripts = <<"spy">> THEN spyListener(s)
    ELSE IF s.scripts = <<"nav", "spy">> THEN spyListener(navListener(s))
    ELSE navListener(spyListener(s))

\* the document before any script ran; the browser has scrolled to the
\* element named by the fragment
DocumentWith(order, io, hash, width, els) ==
    [scripts |-> order, hasIO |-> io, loadHash |-> hash,
     entries |-> <<hash>>, cursor |-> 1, active |-> {},
     sidebarOpen |-> FALSE, overlayActive |-> FALSE,
     ariaExpanded |-> "false", bodyOverflow |-> "",
     innerWidth |-> width,
     scrollY |-> IF ElementExists(hash) THEN Clamp(SectionTop[hash]) ELSE 0,
     nativeTarget |-> None, scrollEvent |-> FALSE, raf |-> <<>>,
     frameQueue |-> <<>>, sinceResize |-> ResizeDelay,
     animCount |-> 0,
     navInstalled |-> [toggle |-> FALSE, drawer |-> FALSE, click |-> FALSE,
                       observer |-> FALSE, popstate |-> FALSE, fallback |-> FALSE],
     navInitTimer |-> None, navResizeTimers |-> <<>>, navTicking |-> FALSE,
     spyMode |-> "off", currentActive |-> Null, isScrolling |-> FALSE,
     spyInitTimer |-> None, spyResizeTimers |-> <<>>, spyTicking |-> FALSE,
     last |-> "load", focus |-> "other", elements |-> els,
     docAdded |-> FALSE, docHeaderHeight |-> Page.headerHeight,
     spyHeaderHeight |-> DefaultHeaderHeight,
     spyNavLinks |-> <<>>, spySections |-> <<>>, spyObserved |-> {},
     relMarkup |-> DefaultRel, rel |-> DefaultRel, onActivated |-> <<>>,
     destroyed |-> FALSE]

Document(order, io, hash, width) ==
    DocumentWith(order, io, hash, width, AllElements)

PageLoad(order, io, hash, width) ==
    Dispatch(Document(order, io, hash, width), navLoad, spyLoad)

PageLoadWith(order, io, hash, width, els) ==
    Dispatch(DocumentWith(order, io, hash, width, els), navLoad, spyLoad)

Is(s) ==
    /\ scripts = s.scripts /\ hasIO = s.hasIO /\ loadHash = s.loadHash
    /\ entries = s.entries /\ cursor = s.cursor
    /\ active = s.active /\ sidebarOpen = s.sidebarOpen
    /\ overlayActive = s.overlayActive /\ ariaExpanded = s.ariaExpanded
    /\ bodyOverflow = s.bodyOverflow /\ innerWidth = s.innerWidth
    /\ scrollY = s.scrollY /\ nativeTarget = s.nativeTarget
    /\ scrollEvent = s.scrollEvent /\ raf = s.raf
    /\ frameQueue = s.frameQueue /\ sinceResize = s.sinceResize
    /\ animCount = s.animCount /\ navInstalled = s.navInstalled
    /\ navInitTimer = s.navInitTimer
    /\ navResizeTimers = s.navResizeTimers /\ navTicking = s.navTicking
    /\ spyMode = s.spyMode /\ currentActive = s.currentActive
    /\ isScrolling = s.isScrolling /\ spyInitTimer = s.spyInitTimer
    /\ spyResizeTimers = s.spyResizeTimers /\ spyTicking = s.spyTicking
    /\ last = s.last /\ focus = s.focus /\ elements = s.elements
    /\ docAdded = s.docAdded /\ docHeaderHeight = s.docHeaderHeight
    /\ spyHeaderHeight = s.spyHeaderHeight
    /\ spyNavLinks = s.spyNavLinks /\ spySections = s.spySections
    /\ spyObserved = s.spyObserved
    /\ relMarkup = s.relMarkup /\ rel = s.rel
    /\ onActivated = s.onActivated /\ destroyed = s.destroyed

InitFrom(orders, hashes, widths) ==
    /\ \E order \in orders, io \in BOOLEAN, hash \in hashes, width \in widths :
          Is(PageLoad(order, io, hash, width))
    /\ theme = DefaultTheme
    /\ toggleRun = <<>>
    /\ userChose = FALSE

Init == InitFrom(ScriptOrders, LoadFragments, Widths)

\* ---------------------------------------------------------------- events
\* a scrollToSection call needs room for one more animation
AnimRoom == animCount < MaxAnims

\* no frame is in progress: listeners and timers run between frames
Idle == frameQueue = <<>>

\* scrollToSection would run for this fragment
StartsAnim(id) == spyMode # "off" /\ HasElement(Cur, id) /\ QueryLink(Cur, id) # Null

\* faulty variant: preventDefault is called only once the target is found
HandledOnlyWithTarget(s, l) ==
    /\ l \in Links /\ (s.navInstalled.click \/ s.spyMode # "off")
    /\ HasElement(s, Href(l))

\* a click listener of one of the scripts handles the link (and calls
\* preventDefault)
Handled(s, l) == l \in Links /\ (s.navInstalled.click \/ s.spyMode # "off")

\* the browser follows a same-page link nobody handles: new history entry
\* unless the fragment is the current one, jump to the element
defaultNavigation(s, l) ==
    LET t1 == IF Hash(s) = Href(l) THEN s ELSE pushState(s, Href(l))
    IN  IF HasElement(t1, Href(l)) THEN scrollTo(t1, SectionTop[Href(l)]) ELSE t1

\* a click on a navigation link; the focus leaves the toggle button
Click(l) ==
    /\ Idle
    /\ l \in DocLinks(Cur)
    /\ (l \in Links /\ StartsAnim(Href(l))) => AnimRoom
    /\ LET s0 == [Event(Cur) EXCEPT !.focus = "other"]
       IN  Become(IF Handled(s0, l)
                  THEN Dispatch(s0, LAMBDA s : navClick(s, l),
                                    LAMBDA s : spyClick(s, l))
                  ELSE defaultNavigation(s0, l))

\* a click on the menu toggle; whether the click focuses the button depends
\* on the browser
ToggleClick ==
    /\ Idle
    /\ navInstalled.toggle
    /\ \E f \in {focus, "toggle"} :
          Become(navToggleClick([Event(Cur) EXCEPT !.focus = f]))

\* a click on the overlay, which cannot hold the focus
OverlayClick ==
    /\ Idle
    /\ navInstalled.drawer
    /\ Become(navOverlayClick([Event(Cur) EXCEPT !.focus = "other"]))

Keys == {"Escape", "Enter"}

Keydown(key) ==
    /\ Idle
    /\ navInstalled.drawer
    /\ Become(navKeydown(Event(Cur), key))

Resize(w) ==
    /\ Idle
    /\ Become(Dispatch([Event(Cur) EXCEPT !.innerWidth = w, !.sinceResize = 0],
                       navResize, spyResize))

Remove(seq, i) == SubSeq(seq, 1, i - 1) \o SubSeq(seq, i + 1, Len(seq))

NavResizeTimer ==
    /\ Idle
    /\ \E i \in 1 .. Len(navResizeTimers) :
        /\ navResizeTimers[i] = 0
        /\ Become(navResizeCallback(
               [Event(Cur)
                   EXCEPT !.navResizeTimers = Remove(navResizeTimers, i)]))

SpyResizeTimer ==
    /\ Idle
    /\ \E i \in 1 .. Len(spyResizeTimers) :
        /\ spyResizeTimers[i] = 0
        /\ Become(refresh(
               [Event(Cur)
                   EXCEPT !.spyResizeTimers = Remove(spyResizeTimers, i)]))

NavInitTimer ==
    /\ Idle
    /\ navInitTimer = 0
    /\ Become(navInitCallback(
           [Event(Cur) EXCEPT !.navInitTimer = None]))

SpyInitTimer ==
    /\ Idle
    /\ spyInitTimer = 0
    /\ AnimRoom
    /\ Become(spyInitCallback(
           [Event(Cur) EXCEPT !.spyInitTimer = None]))

\* session-history traversal by the user: the browser moves to the entry
\* and fires popstate
Traverse(d) ==
    /\ Idle
    /\ cursor + d \in 1 .. Len(entries)
    /\ StartsAnim(entries[cursor + d]) => AnimRoom
    /\ Become(Dispatch([Event(Cur)
                           EXCEPT !.cursor = cursor + d],
                       navPopstate, spyPopstate))

\* the user scrolls the page (wheel, touch, scrollbar)
UserScroll(y) ==
    /\ Idle
    /\ y # scrollY
    /\ Become([Event(Cur)
                  EXCEPT !.scrollY = y, !.nativeTarget = None,
                         !.scrollEvent = TRUE])

\* the browser dispatches the pending scroll event without waiting for the
\* next frame, as the browsers without IntersectionObserver do: several
\* scroll events may arrive between two frames
ScrollDispatch ==
    /\ Idle
    /\ scrollEvent
    /\ Become(Dispatch([Event(Cur) EXCEPT !.scrollEvent = FALSE],
                       navScroll, spyScroll))

\* the browser completes a smooth scroll
NativeScroll ==
    /\ Idle
    /\ nativeTarget # None
    /\ Become([Event(Cur)
                  EXCEPT !.scrollY = nativeTarget, !.nativeTarget = None,
                         !.scrollEvent = scrollEvent \/ nativeTarget # scrollY])

NavObserve(id) ==
    /\ Idle
    /\ navInstalled.observer
    /\ Intersecting(id, scrollY, Page.headerHeight + NavObserverOffset)
    /\ Become(navObserverCallback(Event(Cur), id))

SpyObserve(id) ==
    /\ Idle
    /\ spyMode = "observer"
    /\ id \in spyObserved
    /\ Intersecting(id, scrollY,
                    (IF elements.header THEN Page.headerHeight
                     ELSE DefaultHeaderHeight) + offset)
    /\ Become(spyObserverCallback(Event(Cur), id))

\* window.scrollSpy.destroy(), called by a script of the page
Destroy ==
    /\ Idle
    /\ spyMode # "off"
    /\ Become(destroy(Event(Cur)))

\* dynamic content: a section and a link to it are added to the document
AddContent ==
    /\ Idle
    /\ ~docAdded
    /\ Become([Event(Cur) EXCEPT !.docAdded = TRUE])

\* the header's content reflows and its height changes
HeaderReflow(h) ==
    /\ Idle
    /\ elements.header
    /\ h # docHeaderHeight
    /\ Become([Event(Cur) EXCEPT !.docHeaderHeight = h])

\* time passes: timers run down, animations age
Age(cb) == IF cb.k = "anim"
           THEN [cb EXCEPT !.elapsed = Min(cb.elapsed + TimeUnit, cb.duration)]
           ELSE cb
RunDown(r) == IF r = None THEN None ELSE Max(0, r - TimeUnit)

Pending ==
    \/ navInitTimer > 0 \/ spyInitTimer > 0
    \/ \E i \in 1 .. Len(navResizeTimers) : navResizeTimers[i] > 0
    \/ \E i \in 1 .. Len(spyResizeTimers) : spyResizeTimers[i] > 0
    \/ \E i \in 1 .. Len(raf) : raf[i].k = "anim" /\ raf[i].elapsed < raf[i].duration
    \/ sinceResize < ResizeDelay

Tick ==
    /\ Idle
    /\ Pending
    /\ Become([Event(Cur) EXCEPT
                 !.navInitTimer = RunDown(navInitTimer),
                 !.spyInitTimer = RunDown(spyInitTimer),
                 !.navResizeTimers = [i \in 1 .. Len(navResizeTimers) |->
                                         RunDown(navResizeTimers[i])],
                 !.spyResizeTimers = [i \in 1 .. Len(spyResizeTimers) |->
                                         RunDown(spyResizeTimers[i])],
                 !.raf = [i \in 1 .. Len(raf) |-> Age(raf[i])],
                 !.sinceResize = Min(sinceResize + TimeUnit, ResizeDelay)])

\* a rendering update begins: the pending scroll event is dispatched, then
\* the animation-frame callbacks requested so far are taken, to run in
\* request order; callbacks requested from now on wait for the next frame
Frame ==
    /\ Idle
    /\ raf # <<>> \/ scrollEvent
    /\ LET s0 == Event(Cur)
           s1 == IF scrollEvent
                 THEN Dispatch([s0 EXCEPT !.scrollEvent = FALSE], navScroll, spyScroll)
                 ELSE s0
       IN  Become([s1 EXCEPT !.frameQueue = s1.raf, !.raf = <<>>])

RunCallback(s, cb) ==
    IF cb.k = "anim" THEN animation(s, cb)
    ELSE IF cb.k = "spyPoll"
         THEN [updateActiveOnScroll(s) EXCEPT !.spyTicking = FALSE]
         ELSE [navUpdateActiveOnScroll(s) EXCEPT !.navTicking = FALSE]

\* the next animation-frame callback of the frame in progress
Callback ==
    /\ ~Idle
    /\ Become(RunCallback([Event(Cur) EXCEPT !.frameQueue = Tail(frameQueue)],
                          Head(frameQueue)))

Next ==
    \/ \E l \in 1 .. AddedLink : Click(l)
    \/ ToggleClick
    \/ OverlayClick
    \/ \E key \in Keys : Keydown(key)
    \/ \E w \in Widths : Resize(w)
    \/ NavResizeTimer
    \/ SpyResizeTimer
    \/ NavInitTimer
    \/ SpyInitTimer
    \/ \E d \in {-1, 1} : Traverse(d)
    \/ \E y \in UserScrollPositions : UserScroll(y)
    \/ ScrollDispatch
    \/ NativeScroll
    \/ \E id \in Sections : NavObserve(id)
    \/ \E id \in Sections : SpyObserve(id)
    \/ AddContent
    \/ \E h \in HeaderHeights : HeaderReflow(h)
    \/ Destroy
    \/ Tick
    \/ Frame
    \/ Callback

Spec == Init /\ [][Next]_vars

\* the drawer and everything that opens or closes it
NextDrawer ==
    \/ \E l \in Links : Click(l)
    \/ ToggleClick
    \/ OverlayClick
    \/ \E key \in Keys : Keydown(key)
    \/ \E w \in Widths : Resize(w)
    \/ NavResizeTimer
    \/ SpyResizeTimer
    \/ SpyInitTimer
    \/ \E d \in {-1, 1} : Traverse(d)
    \/ Tick

\* the drawer does not depend on which fragment the page was loaded with:
\* a load without a fragment and one with a section's fragment are enough
InitDrawer == InitFrom(ScriptOrders, {"", "s2"}, Widths)

SpecDrawer == InitDrawer /\ [][NextDrawer]_vars

\* the drawer's own triggers on the pages that load navigation.js, with the
\* link clicks that close it
NextTriggers ==
    \/ \E l \in Links : Click(l)
    \/ ToggleClick
    \/ OverlayClick
    \/ \E key \in Keys : Keydown(key)
    \/ \E w \in Widths : Resize(w)
    \/ NavResizeTimer
    \/ Tick

InitTriggers ==
    InitFrom({<<"nav">>, <<"nav", "spy">>, <<"spy", "nav">>}, {"", "s2"}, Widths)

SpecTriggers == InitTriggers /\ [][NextTriggers]_vars

\* scrolling: animated scrolls, viewport-driven activation, frames
NextScroll ==
    \/ \E l \in Links : Click(l)
    \/ NavInitTimer
    \/ SpyInitTimer
    \/ \E y \in UserScrollPositions : UserScroll(y)
    \/ NativeScroll
    \/ \E id \in Sections : NavObserve(id)
    \/ \E id \in Sections : SpyObserve(id)
    \/ Tick
    \/ Frame
    \/ Callback

\* the drawer stays closed here, so one width and the pages that load
\* scroll-spy.js are enough
InitScroll == InitFrom({<<"spy">>, <<"nav", "spy">>}, {"", "s2"}, {Breakpoint + 1})

SpecScroll == InitScroll /\ [][NextScroll]_vars

\* what follows a page load without user input: the delayed callbacks, the
\* frames and the observers' reports
NextLoad ==
    \/ NavInitTimer
    \/ SpyInitTimer
    \/ NativeScroll
    \/ \E id \in Sections : NavObserve(id)
    \/ \E id \in Sections : SpyObserve(id)
    \/ Tick
    \/ Frame
    \/ Callback

SpecLoad == Init /\ [][NextLoad]_vars

\* the session history on a page that runs scroll-spy.js: clicks, traversals,
\* the delayed initial scroll and the observer's reports
NextHistory ==
    \/ \E l \in Links : Click(l)
    \/ \E d \in {-1, 1} : Traverse(d)
    \/ SpyInitTimer
    \/ \E id \in Sections : SpyObserve(id)
    \/ \E y \in UserScrollPositions : UserScroll(y)
    \/ Tick

InitHistory == InitFrom({<<"spy">>}, {"", "s2"}, {Breakpoint + 1})

SpecHistory == InitHistory /\ [][NextHistory]_vars

\* scrolling on a page that runs scroll-spy.js alone
NextSuppress ==
    \/ \E l \in Links : Click(l)
    \/ SpyInitTimer
    \/ \E y \in UserScrollPositions : UserScroll(y)
    \/ \E id \in Sections : SpyObserve(id)
    \/ Tick
    \/ Frame
    \/ Callback

SpecSuppress == InitHistory /\ [][NextSuppress]_vars

\* the animation loops alone, with the scheduling the browser gives a
\* visible page: a frame in progress runs its callbacks, a requested frame
\* is rendered, and time advances between frames
NextAnimation ==
    \/ \E l \in Links : Click(l)
    \/ SpyInitTimer
    \/ Tick
    \/ Frame
    \/ Callback

SpecAnimation ==
    /\ InitHistory /\ [][NextAnimation]_vars
    /\ WF_vars(Callback) /\ WF_vars(Frame) /\ SF_vars(Tick)

\* the detection strategy of ScrollSpy and every operation that follows
\* init: clicks, traversals, refresh() after a resize (of the window to the
\* breakpoint width), destroy(), frames
NextStrategy ==
    \/ \E l \in Links : Click(l)
    \/ \E d \in {-1, 1} : Traverse(d)
    \/ Resize(Breakpoint)
    \/ SpyResizeTimer
    \/ Destroy
    \/ SpyInitTimer
    \/ \E id \in Sections : SpyObserve(id)
    \/ Tick
    \/ Frame
    \/ Callback

SpecStrategy == InitHistory /\ [][NextStrategy]_vars

\* polling mode: a browser without IntersectionObserver on a page running
\* scroll-spy.js, scroll events arriving at any time
NextPolling ==
    \/ \E l \in Links : Click(l)
    \/ \E y \in UserScrollPositions : UserScroll(y)
    \/ ScrollDispatch
    \/ Tick
    \/ Frame
    \/ Callback

InitPolling ==
    /\ Is(PageLoad(<<"spy">>, FALSE, "", Breakpoint + 1))
    /\ theme = DefaultTheme
    /\ toggleRun = <<>>
    /\ userChose = FALSE

SpecPolling == InitPolling /\ [][NextPolling]_vars

\* pages that lack some of the optional elements, in a browser that has
\* IntersectionObserver
InitElements ==
    /\ \E order \in ScriptOrders, hash \in {"", "s2"}, width \in Widths,
          els \in ElementSets :
          Is(PageLoadWith(order, TRUE, hash, width, els))
    /\ theme = DefaultTheme
    /\ toggleRun = <<>>
    /\ userChose = FALSE

SpecElements == InitElements /\ [][NextDrawer]_vars

\* a page running scroll-spy.js whose document changes after the load:
\* content is added, the header reflows, and the debounced resize handler
\* calls refresh()
NextRefresh ==
    \/ AddContent
    \/ \E h \in HeaderHeights : HeaderReflow(h)
    \/ \E w \in Widths : Resize(w)
    \/ SpyResizeTimer
    \/ \E l \in 1 .. AddedLink : Click(l)
    \/ Tick

InitRefresh ==
    /\ \E io \in BOOLEAN,
          els \in {AllElements, [AllElements EXCEPT !.header = FALSE]} :
          Is(PageLoadWith(<<"spy">>, io, "", Breakpoint + 1, els))
    /\ theme = DefaultTheme
    /\ toggleRun = <<>>
    /\ userChose = FALSE

SpecRefresh == InitRefresh /\ [][NextRefresh]_vars

\* the theme: clicks on the toggle button and changes of the system scheme
ThemeSnapshot == [dataTheme |-> theme.dataTheme, stored |-> theme.stored]

ToggleTheme ==
    /\ theme.button
    /\ theme' = toggleTheme(theme)
    /\ toggleRun' = IF Len(toggleRun) < 2 THEN Append(toggleRun, ThemeSnapshot)
                    ELSE <<toggleRun[2], ThemeSnapshot>>
    /\ userChose' = TRUE
    /\ UNCHANGED pageVars

SystemThemeChange ==
    /\ theme' = systemThemeChanged(theme, ~theme.prefersDark)
    /\ toggleRun' = <<>>
    /\ UNCHANGED userChose
    /\ UNCHANGED pageVars

\* DOMContentLoaded, when the script left the initialisation to it
DOMContentLoaded ==
    /\ ~theme.booted
    /\ theme' = ThemeBoot(theme)
    /\ UNCHANGED <<toggleRun, userChose>>
    /\ UNCHANGED pageVars

\* the page is loaded again (a later session): the script runs anew on the
\* storage the last session left
Reload ==
    /\ theme.booted
    /\ \E loading \in BOOLEAN :
          theme' = ThemeLoad(theme.stored, theme.prefersDark, theme.matchMedia,
                            theme.topNav, loading)
    /\ toggleRun' = <<>>
    /\ UNCHANGED userChose
    /\ UNCHANGED pageVars

InitTheme ==
    /\ Is(PageLoad(<<"nav", "spy">>, TRUE, "", Breakpoint + 1))
    /\ \E stored \in StoredThemes, prefersDark \in BOOLEAN, matchMedia \in BOOLEAN,
          topNav \in BOOLEAN, loading \in BOOLEAN :
          theme = ThemeLoad(stored, prefersDark, matchMedia, topNav, loading)
    /\ toggleRun = <<>>
    /\ userChose = FALSE

NextTheme == DOMContentLoaded \/ ToggleTheme \/ SystemThemeChange \/ Reload

SpecTheme == InitTheme /\ [][NextTheme]_vars

\* the external links: documents served with any rel on their
\* target="_blank" links, and the drawer's triggers as the page's events
PageLoadRel(order, io, hash, width, markup) ==
    Dispatch([Document(order, io, hash, width)
                 EXCEPT !.relMarkup = markup, !.rel = markup], navLoad, spyLoad)

InitLinks ==
    /\ \E io \in BOOLEAN, markup \in [ExternalLinks -> RelValues] :
          Is(PageLoadRel(<<"nav", "spy">>, io, "", Breakpoint, markup))
    /\ theme = DefaultTheme
    /\ toggleRun = <<>>
    /\ userChose = FALSE

NextLinks ==
    \/ ToggleClick
    \/ OverlayClick
    \/ \E key \in Keys : Keydown(key)

SpecLinks == InitLinks /\ [][NextLinks]_vars

\* ================================================================ claims
DrawerIndicators == <<sidebarOpen, overlayActive, ariaExpanded, bodyOverflow>>
DrawerClosed == /\ ~sidebarOpen /\ ~overlayActive
                /\ ariaExpanded = "false" /\ bodyOverflow = ""
DrawerOpen == /\ sidebarOpen /\ overlayActive
              /\ ariaExpanded = "true" /\ bodyOverflow = "hidden"

AtLoad == last \in {"load", "loadThrew"}

\* animations that have not run their final frame yet
PendingAnims == {cb \in {raf[i] : i \in 1 .. Len(raf)}
                          \cup {frameQueue[i] : i \in 1 .. Len(frameQueue)} :
                    cb.k = "anim"}

\* C1: a click on a navigation link whose href names an existing section
\* ends, in every state, with that link the only one carrying the active
\* class and with the URL fragment equal to the section's identifier.
C1_ClickActivatesAndSetsFragment ==
    [][\A l \in Links :
          (ElementExists(LinkHref[l]) /\ Click(l))
              => (active' = {l} /\ entries'[cursor'] = LinkHref[l])]_vars

\* the step that runs ScrollSpy's polling check
SpyPollStep == ~Idle /\ Head(frameQueue).k = "spyPoll" /\ Callback

\* C2: while isScrolling is true, a viewport-driven activation event of
\* ScrollSpy (observer callback or polling check) changes neither the active
\* link, nor currentActive, nor the URL.
C2_SuppressedWhileScrolling ==
    [][(isScrolling /\ (SpyPollStep \/ \E id \in Sections : SpyObserve(id)))
          => UNCHANGED <<active, currentActive, entries, cursor>>]_vars

\* C2 witness: the polling check is the next callback of the frame in
\* progress, isScrolling is true and the probe position lies in a section
\* whose link is not the current one.
C2_PollDueWhileScrolling ==
    /\ isScrolling
    /\ ~Idle /\ Head(frameQueue).k = "spyPoll"
    /\ updateActiveOnScroll([Cur EXCEPT !.isScrolling = FALSE]).active # active

\* C3: whenever an animation started by scrollToSection still has frames
\* pending, isScrolling is true.
C3_ScrollingWhileAnimating == PendingAnims # {} => isScrolling

C5_FirstLinkActiveWithoutFragment ==
    (AtLoad /\ loadHash = "")
        => (1 \in active /\ (spyMode # "off" => currentActive = 1))

C7_ToggleTwiceRestores ==
    (theme.booted /\ Len(toggleRun) = 2) => ThemeSnapshot = toggleRun[1]

\* C8: at most one resize timer is pending; its callback runs no earlier
\* than 250 ms after the last resize event, leaves no timer behind, and
\* closes the drawer when the viewport is wider than 768 px.
C8_DebouncedClose ==
    [][/\ Len(navResizeTimers') <= 1
       /\ NavResizeTimer =>
            /\ sinceResize >= ResizeDelay
            /\ navResizeTimers' = <<>>
            /\ (innerWidth > Breakpoint /\ sidebarOpen) => DrawerClosed'
            /\ ~(innerWidth > Breakpoint) => UNCHANGED DrawerIndicators
      ]_vars

\* C8 witness: the drawer is open on a wide viewport and the one resize
\* timer is due.
C8_TimerDueWithDrawerOpen ==
    /\ sidebarOpen /\ innerWidth > Breakpoint
    /\ navResizeTimers = <<0>> /\ sinceResize = ResizeDelay

\* C9: the four drawer indicators agree in every state.
C9_IndicatorsAgree ==
    /\ sidebarOpen <=> overlayActive
    /\ sidebarOpen <=> (ariaExpanded = "true")
    /\ sidebarOpen <=> (bodyOverflow = "hidden")

\* C9 witness: the drawer is open on a narrow viewport after a navigation
\* click has been handled.
C9_DrawerOpenAfterNavigation == DrawerOpen /\ innerWidth <= Breakpoint /\ cursor > 1

\* C10: a click on a link whose section exists closes the open drawer on a
\* viewport of at most 768 px and leaves the drawer as it is on a wider one.
C10_ClickClosesDrawerWhenNarrow ==
    [][\A l \in Links :
          (ElementExists(LinkHref[l]) /\ Click(l)) =>
              /\ (innerWidth <= Breakpoint /\ sidebarOpen) => DrawerClosed'
              /\ innerWidth > Breakpoint => UNCHANGED DrawerIndicators]_vars

\* C11: an overlay click leaves the drawer closed; Escape with the drawer
\* open closes it and moves the focus to the toggle button; Escape with the
\* drawer closed changes neither the drawer nor the focus; a click on the
\* toggle button flips the drawer between open and closed.
C11_DrawerTriggers ==
    [][/\ OverlayClick => DrawerClosed'
       /\ (Keydown("Escape") /\ sidebarOpen)
             => (DrawerClosed' /\ focus' = "toggle")
       /\ (Keydown("Escape") /\ ~sidebarOpen)
             => UNCHANGED <<DrawerIndicators, focus>>
       /\ ToggleClick => IF sidebarOpen THEN DrawerClosed' ELSE DrawerOpen'
      ]_vars

\* C11 witness: the drawer is open, its listeners are installed and the
\* focus is not on the toggle button, so Escape has a focus to move
C11_OpenWithFocusElsewhere ==
    DrawerOpen /\ navInstalled.drawer /\ focus = "other" /\ last = "ok"

\* the history after one pushState of the fragment id
OneEntryAdded(id) ==
    /\ entries' = pushState(Cur, id).entries
    /\ cursor' = pushState(Cur, id).cursor

\* the current entry may have been replaced, no entry was added or removed
NoEntryAdded ==
    /\ cursor' = cursor
    /\ Len(entries') = Len(entries)
    /\ \A i \in 1 .. Len(entries) : i # cursor => entries'[i] = entries[i]

\* C12: only a click on a navigation link adds a history entry, one per
\* click; viewport-driven activation replaces the current entry; a popstate
\* event and the initial fragment load add none, so the entries ahead of the
\* current one survive a back navigation.
C12_OnlyClicksAddEntries ==
    [][/\ \A l \in Links :
            (ElementExists(LinkHref[l]) /\ Click(l)) => OneEntryAdded(LinkHref[l])
       /\ (\E id \in Sections : SpyObserve(id)) => NoEntryAdded
       /\ \A d \in {-1, 1} :
            Traverse(d) => (entries' = entries /\ cursor' = cursor + d)
       /\ SpyInitTimer => UNCHANGED <<entries, cursor>>
      ]_vars

\* this step started a scroll toward the section: a new animation of
\* ScrollSpy, or a smooth scroll of the browser
ScrollStartedTo(id) ==
    \/ /\ animCount' = animCount + 1
       /\ \E i \in 1 .. Len(raf') :
             /\ raf'[i].k = "anim" /\ raf'[i].id = animCount'
             /\ raf'[i].from + raf'[i].distance
                  = TargetPosition(id, spyHeaderHeight)
    \/ nativeTarget' = Clamp(TargetPosition(id, Page.headerHeight))

\* C13: a popstate event whose fragment names an existing section with a
\* matching link makes that link the only active one and starts a scroll to
\* the section; a popstate with an empty fragment, or one matching nothing,
\* leaves the active link, isScrolling and the scroll position unchanged.
C13_PopstateActivatesAndScrolls ==
    [][\A d \in {-1, 1} :
          Traverse(d) =>
              LET h == entries[cursor + d] IN
              /\ (ElementExists(h) /\ LinkFor(h) # Null)
                    => (active' = {LinkFor(h)} /\ ScrollStartedTo(h))
              /\ (h = "" \/ (~ElementExists(h) /\ LinkFor(h) = Null))
                    => UNCHANGED <<active, isScrolling, scrollY>>
      ]_vars

\* the theme the claim resolves from the storage and the system preference
\* as the browser reports it
ResolvedTheme ==
    CASE theme.stored # Absent -> theme.stored
      [] theme.matchMedia /\ theme.prefersDark -> "dark"
      [] OTHER -> "light"

\* the step that runs the theme initialisation
ThemeInitStep == DOMContentLoaded \/ (Reload /\ theme'.booted)

\* C14: initialisation resolves the theme as the persisted value if one is
\* stored, else 'dark' if the system prefers dark, else 'light', sets it as
\* the data-theme attribute and writes it to storage.
C14_InitResolvesTheme ==
    [][ThemeInitStep => /\ theme'.dataTheme = ResolvedTheme
                        /\ theme'.stored = ResolvedTheme]_vars

\* C14 witness: the initialisation is about to run with nothing stored on a
\* system that prefers dark
C14_InitDueOnDarkSystem ==
    /\ ~theme.booted /\ theme.stored = Absent
    /\ theme.matchMedia /\ theme.prefersDark

\* C15: a change of the system colour scheme is applied to the document
\* exactly when the user has never used the toggle.
C15_SystemChangeAppliedUnlessChosen ==
    [][(SystemThemeChange /\ theme.booted /\ theme.matchMedia) =>
          IF userChose
          THEN theme'.dataTheme = theme.dataTheme
          ELSE theme'.dataTheme = IF theme'.prefersDark THEN "dark" ELSE "light"
      ]_vars

\* C16: once the theme is initialised, the stored value and the data-theme
\* attribute are each 'light' or 'dark'.
C16_ThemeIsLightOrDark ==
    theme.booted => /\ theme.stored \in {"light", "dark"}
                    /\ theme.dataTheme \in {"light", "dark"}

\* C17: whatever optional elements the page lacks, the initialisation and
\* every event handler complete without throwing, and a missing element
\* disables only the feature that uses it: without the layout-grid container
\* (used for the drawer's overlay only) navigation.js still installs its
\* link, observer and popstate handling.
C17_MissingElementsTolerated ==
    /\ last \notin {"loadThrew", "threw"}
    /\ (Loaded(Cur, "nav") /\ elements.header /\ ~elements.layoutGrid)
          => /\ navInstalled.click
             /\ navInstalled.observer
             /\ navInstalled.popstate

\* C18: at most one navigation link carries the active class, and in
\* ScrollSpy a non-null currentActive is exactly that link.
C18_OneActiveLinkIsCurrent ==
    /\ Cardinality(active) <= 1
    /\ (spyMode # "off" /\ currentActive # Null) => active = {currentActive}

\* C19: without IntersectionObserver the initialisation completes and the
\* polling scroll spy is installed as the fallback.
C19_FallbackWithoutObserver ==
    ~hasIO => /\ last # "loadThrew"
              /\ Loaded(Cur, "nav") => navInstalled.fallback
              /\ Loaded(Cur, "spy") => spyMode = "polling"

\* C20: refresh() replaces the tracked sections, the tracked links and the
\* header height by the document's current ones (the header height is kept
\* when the page has no header) and changes nothing else: currentActive,
\* isScrolling, the active class, the URL and the history stay as they are.
C20_RefreshFrame ==
    [][SpyResizeTimer =>
          /\ spySections' = DocSectionIds(Cur)
          /\ spyNavLinks' = DocNavLinks(Cur)
          /\ spyHeaderHeight' = IF elements.header THEN docHeaderHeight
                                ELSE spyHeaderHeight
          /\ UNCHANGED <<currentActive, isScrolling, active, entries, cursor,
                         scrollY, spyMode>>
      ]_vars

\* C20 witness: refresh() has run after the document changed: the tracked
\* lists hold the added section and link, the new header height is known,
\* and a link is current
C20_RefreshedAfterChange ==
    /\ Len(spySections) = Len(SectionIds) + 1
    /\ Len(spyNavLinks) = AddedLink
    /\ spyHeaderHeight = Page.headerHeight + 20
    /\ currentActive # Null

\* the animation loops that have not run their final frame, by the number
\* of the smoothScrollTo call that started them
AnimIds(q) == {q[i].id : i \in {j \in 1 .. Len(q) : q[j].k = "anim"}}
PendingIds == AnimIds(raf) \cup AnimIds(frameQueue)
AnimRecords == Len(SelectSeq(raf \o frameQueue, LAMBDA cb : cb.k = "anim"))

\* the step that runs one frame of an animation loop
AnimStep == ~Idle /\ Head(frameQueue).k = "anim" /\ Callback

\* C21: a scrollToSection call made while an earlier animation is in flight
\* stops none: the call adds one loop and keeps the others; a frame of a
\* loop sets the scroll position and, before its duration has elapsed,
\* keeps the loop pending; the frame taken once the duration has elapsed
\* clears isScrolling and ends that loop and no other; no other step ends a
\* loop, so every loop completes exactly once.
C21_OverlappingAnimationsAllRun ==
    [][/\ animCount' # animCount =>
             /\ animCount' = animCount + 1
             /\ PendingIds' = PendingIds \cup {animCount'}
       /\ AnimStep =>
             LET a == Head(frameQueue) IN
             /\ scrollY' = Clamp(a.from + EasedDistance(a.distance, a.elapsed,
                                                        a.duration))
             /\ IF a.elapsed < a.duration
                THEN PendingIds' = PendingIds
                ELSE PendingIds' = PendingIds \ {a.id} /\ ~isScrolling'
       /\ ~AnimStep => PendingIds \subseteq PendingIds'
       /\ Cardinality(PendingIds') = AnimRecords'
      ]_vars

\* C21 witness: two loops are in flight, the earlier one is about to run the
\* frame that ends it while the later one has time left
C21_TwoLoopsInFlight ==
    /\ ~Idle /\ Len(frameQueue) = 2
    /\ frameQueue[1].k = "anim" /\ frameQueue[2].k = "anim"
    /\ frameQueue[1].elapsed = frameQueue[1].duration
    /\ frameQueue[2].elapsed < frameQueue[2].duration
    /\ frameQueue[1].id < frameQueue[2].id

\* C22: with frames rendered and time advancing, every animation loop ends;
\* isScrolling is set only by a scroll request, and once the requests have
\* stopped it becomes false and stays false.
C22_AnimationsEnd ==
    /\ [][(~isScrolling /\ isScrolling') => animCount' = animCount + 1]_vars
    /\ <>[](~isScrolling /\ PendingIds = {})

\* C22 witness: the animations are over and the flag is down
C22_AllEnded ==
    animCount = MaxAnims /\ PendingIds = {} /\ ~isScrolling /\ Idle

\* ScrollSpy's scroll listener has requested a position check
PollRequested ==
    \/ spyTicking
    \/ \E i \in 1 .. Len(raf) : raf[i].k = "spyPoll"
    \/ \E i \in 1 .. Len(frameQueue) : frameQueue[i].k = "spyPoll"

\* C23: once ScrollSpy is initialised the strategy is the observer if and
\* only if IntersectionObserver exists and performanceMode is set, polling
\* otherwise; in polling mode nothing is observed, in observer mode no
\* position check is ever requested; no step changes the strategy, and the
\* observed sections change only when destroy() disconnects the observer.
C23_StrategyChosenOnce ==
    /\ [](spyMode # "off" =>
            /\ spyMode = (IF hasIO /\ performanceMode THEN "observer"
                          ELSE "polling")
            /\ spyMode = "polling" => spyObserved = {}
            /\ spyMode = "observer" => ~PollRequested)
    /\ [][/\ spyMode' = spyMode
          /\ spyObserved' # spyObserved => (Destroy /\ spyObserved' = {})]_vars

\* C23 witness: in observer mode, after a click, a traversal back, a
\* refresh that followed a resize and a destroy()
C23_ObserverAfterEveryOperation ==
    /\ spyMode = "observer" /\ spyObserved = {}
    /\ animCount > 0 /\ cursor < Len(entries)
    /\ innerWidth = Breakpoint /\ spyResizeTimers = <<>>

\* position checks requested by ScrollSpy's scroll listener and not yet run
PollCount == Len(SelectSeq(raf \o frameQueue, LAMBDA cb : cb.k = "spyPoll"))

\* a scroll event reaches the listeners: between frames, or at a frame
ScrollEventStep == scrollEvent /\ (ScrollDispatch \/ Frame)

\* C24: in polling mode at most one position check is pending, and one is
\* pending exactly while 'ticking' is set; a scroll event requests a check
\* when none is pending and requests nothing when one is; the check, once
\* run, leaves none pending, so the next scroll event requests a new one.
C24_OneCheckPerFrame ==
    /\ [](spyMode = "polling" => (PollCount <= 1 /\ (spyTicking <=> PollCount = 1)))
    /\ [][spyMode = "polling" =>
            /\ ScrollEventStep => PollCount' = 1
            /\ SpyPollStep => PollCount' = 0
            /\ PollCount' > PollCount => ScrollEventStep
            /\ PollCount' < PollCount => SpyPollStep]_vars

\* C24 witness: a check is pending and another scroll event is about to
\* reach the listener before the frame
C24_SecondEventBeforeFrame ==
    spyMode = "polling" /\ Idle /\ PollCount = 1 /\ scrollEvent

\* the tracked sections whose extent [top, top + height) contains pos
SectionsAt(pos) ==
    {id \in {spySections[i] : i \in 1 .. Len(spySections)} :
        SectionTop[id] <= pos /\ pos < SectionTop[id] + SectionHeight[id]}

\* C25: a polling check taken with isScrolling false leaves the link of the
\* section containing scrollY + headerHeight + offset the only active link
\* and ScrollSpy's current one; when no section contains that position, or
\* the section has no link, the active links, currentActive and the history
\* are unchanged.
C25_PollingCheckActivates ==
    [][(SpyPollStep /\ ~isScrolling) =>
          LET at == SectionsAt(scrollY + spyHeaderHeight + offset) IN
          IF \E id \in at : QueryLink(Cur, id) # Null
          THEN \A id \in at :
                  /\ active' = {QueryLink(Cur, id)}
                  /\ currentActive' = QueryLink(Cur, id)
          ELSE UNCHANGED <<active, currentActive, entries, cursor>>
      ]_vars

\* C25 witness: a polling check is about to run with isScrolling false at a
\* position inside the section of a link that is not the active one
C25_CheckDueInAnotherSection ==
    /\ ~Idle /\ Head(frameQueue).k = "spyPoll" /\ ~isScrolling
    /\ \E id \in SectionsAt(scrollY + spyHeaderHeight + offset) :
          QueryLink(Cur, id) # Null /\ QueryLink(Cur, id) \notin active

\* the links whose href names no element of the document
DanglingLinks == {l \in Links : ~HasElement(Cur, Href(l))}

\* C26: a click on a navigation link whose href names no existing section
\* suppresses the default navigation and changes nothing: the active link,
\* currentActive, isScrolling, the scroll position, the URL, the history and
\* the drawer stay as they are, and no scroll is started.
C26_ClickOnDanglingLink ==
    [][(\E l \in DanglingLinks : Click(l)) =>
          UNCHANGED <<active, currentActive, isScrolling, scrollY, entries,
                      cursor, sidebarOpen, overlayActive, ariaExpanded,
                      bodyOverflow, nativeTarget, raf, animCount, scrollEvent>>
      ]_vars

\* the drawer is open on a narrow window, a link is active, the URL names a
\* section, and both scripts listen for clicks on a dangling link
C26_DanglingLinkWithDrawerOpen ==
    /\ Idle /\ DanglingLinks # {}
    /\ sidebarOpen /\ innerWidth <= Breakpoint
    /\ navInstalled.click /\ spyMode # "off"
    /\ active # {} /\ Hash(Cur) = "s2"
    /\ focus = "toggle"

\* C27: once the theme is initialised, after any sequence of toggles and
\* changes of the system preference, the data-theme attribute of the
\* document equals the value stored under 'theme'.
C27_AttributeEqualsStored ==
    theme.booted => theme.dataTheme = theme.stored

\* the user has toggled to light on a system that prefers dark
C27_ToggledAgainstSystem ==
    /\ theme.booted /\ userChose /\ toggleRun # <<>>
    /\ theme.matchMedia /\ theme.prefersDark
    /\ theme.dataTheme = "light"

\* C28: whenever the toggle button exists, also right after the page loaded,
\* its text and aria-label match the theme: 'Light' and 'Switch to light
\* mode' exactly when the theme is 'dark', else 'Dark' and 'Switch to dark
\* mode'.
C28_ButtonMatchesTheme ==
    theme.button =>
        IF theme.dataTheme = "dark"
        THEN theme.text = "Light" /\ theme.label = "Switch to light mode"
        ELSE theme.text = "Dark" /\ theme.label = "Switch to dark mode"

\* every token of r is a token of q
TokensKept(r, q) == \A i \in 1 .. Len(r) : Includes(q, r[i])

\* C29: once navigation.js has run to its end, every target="_blank" link
\* has a rel attribute containing both 'noopener' and 'noreferrer', whatever
\* rel the document gave it (none, one of the two tokens, both, neither),
\* and the tokens the document gave it are still there.
C29_ExternalLinksSecured ==
    navInstalled.popstate =>
        \A k \in ExternalLinks :
            /\ rel[k].has
            /\ Includes(rel[k].tokens, "noopener")
            /\ Includes(rel[k].tokens, "noreferrer")
            /\ TokensKept(relMarkup[k].tokens, rel[k].tokens)

\* the step that runs the final frame of the last animation loop in flight
LastFinalFrame ==
    /\ AnimStep
    /\ Head(frameQueue).elapsed >= Head(frameQueue).duration
    /\ PendingIds = {Head(frameQueue).id}

\* C30 as stated: when the last loop in flight has run its final frame, the
\* scroll position equals the target position of the most recently started
\* animation, however the calls overlapped and their frames interleaved.
C30_FinalPositionIsTarget ==
    [][LastFinalFrame =>
          LET a == Head(frameQueue) IN
          /\ a.id = animCount
          /\ scrollY' = a.from + a.distance]_vars

\* C30 as the code has it: the loop that ends last is the one started last,
\* and the position is its target brought into the scrollable range of the
\* document.
C30_FinalPositionIsClampedTarget ==
    [][LastFinalFrame =>
          LET a == Head(frameQueue) IN
          /\ a.id = animCount
          /\ scrollY' = Clamp(a.from + a.distance)]_vars

\* two overlapping loops with different targets run their final frames in
\* the same animation frame
C30_BothLoopsEndInOneFrame ==
    /\ Len(frameQueue) = 2
    /\ frameQueue[1].k = "anim" /\ frameQueue[2].k = "anim"
    /\ frameQueue[1].elapsed >= frameQueue[1].duration
    /\ frameQueue[2].elapsed >= frameQueue[2].duration
    /\ frameQueue[1].from + frameQueue[1].distance
          # frameQueue[2].from + frameQueue[2].distance

\* a viewport-driven activation: the observer reports a section, or the
\* position check of the polling strategy runs
ViewportStep == SpyPollStep \/ \E id \in Sections : SpyObserve(id)

\* the section reported has a link, and that link is currentActive
ReportsCurrent(id) == QueryLink(Cur, id) # Null /\ currentActive = QueryLink(Cur, id)

\* C31: a viewport-driven activation for the section whose link is already
\* currentActive changes no class, replaces no history entry and makes no
\* onActivate call; a viewport-driven activation that changes the active
\* link calls onActivate once and leaves the URL fragment equal to the
\* identifier of the section now active.
C31_RepeatedActivationIsNoOp ==
    [][/\ \A id \in Sections :
             (SpyObserve(id) /\ ReportsCurrent(id)) =>
                 /\ UNCHANGED <<active, currentActive, entries, cursor>>
                 /\ onActivated' = <<>>
       /\ (/\ SpyPollStep
           /\ \E id \in SectionsAt(scrollY + spyHeaderHeight + offset) :
                 ReportsCurrent(id)) =>
                 /\ UNCHANGED <<active, currentActive, entries, cursor>>
                 /\ onActivated' = <<>>
       /\ (ViewportStep /\ currentActive' # currentActive) =>
             /\ currentActive' # Null
             /\ active' = {currentActive'}
             /\ entries'[cursor'] = Href(currentActive')
             /\ onActivated' = <<Href(currentActive')>>
             /\ Len(entries') = Len(entries) /\ cursor' = cursor
      ]_vars

\* an animated scroll has ended and the observer can report the section
\* the scroll request made current
C31_CurrentSectionInView ==
    /\ Idle /\ spyMode = "observer" /\ ~isScrolling
    /\ animCount > 0 /\ PendingIds = {}
    /\ currentActive # Null
    /\ Href(currentActive) \in spyObserved
    /\ Intersecting(Href(currentActive), scrollY, Page.headerHeight + offset)

\* refresh() has run since the section and its link were added
AddedTracked ==
    /\ docAdded
    /\ \E i \in 1 .. Len(spySections) : spySections[i] = AddedId
    /\ \E i \in 1 .. Len(spyNavLinks) : spyNavLinks[i] = AddedLink

\* C32: once refresh() has run, a section and a link added to the document
\* after initialization are tracked like the original ones in both modes:
\* the observer, where there is one, observes the new section, so scrolling
\* it into view activates its link; and a click on the new link starts the
\* animated scroll to its section and makes the link the active one.
C32_RefreshTracksAddedContent ==
    /\ []((AddedTracked /\ spyMode = "observer") => AddedId \in spyObserved)
    /\ [][(AddedTracked /\ Click(AddedLink)) =>
             /\ isScrolling' /\ animCount' = animCount + 1
             /\ currentActive' = AddedLink /\ active' = {AddedLink}
             /\ onActivated' = <<AddedId>>]_vars

\* C33: after destroy() no event changes the active links, currentActive or
\* the URL, in either detection mode: reports of the viewport, clicks on
\* navigation links and popstate events are without effect on them (a
\* traversal of the session history moves to the entry the user chose, and
\* nothing more happens).
C33_NothingAfterDestroy ==
    [][destroyed =>
          /\ UNCHANGED <<active, currentActive, entries>>
          /\ \/ cursor' = cursor
             \/ \E d \in {-1, 1} : Traverse(d) /\ cursor' = cursor + d]_vars

====
